---- MODULE Spec2Model ----
(***************************************************************************)
(* A model of imgur-rs (src/src/lib.rs): the ImgurClient, its three GET    *)
(* operations, the future chain of get_with_header (request, body          *)
(* accumulation, serde_json::from_slice) and the serde data model          *)
(* (Response<T>, the untagged ResponseData<T>, ApiError, Image, Album).    *)
(*                                                                         *)
(* A response body is a sequence of JSON tokens delivered in chunks.  JSON *)
(* text is parsed into a JSON value and the value is deserialized into the *)
(* typed records by the rules serde's derive generates.                    *)
(***************************************************************************)
EXTENDS Integers, Sequences, FiniteSets, TLC

(***************************************************************************)
(* Bounds of the model.                                                    *)
(***************************************************************************)
NumCalls == 2
MaxChunks == 2

(***************************************************************************)
(* Program constants.                                                      *)
(***************************************************************************)
API == "https://api.imgur.com/3"

Calls == 1 .. NumCalls

(***************************************************************************)
(* JSON text: a token is a punctuation mark, a literal, a string or a      *)
(* number.  k = "num" is an integer literal, k = "flt" a literal with a    *)
(* fraction.                                                               *)
(***************************************************************************)
Tok(k, s, n) == [k |-> k, s |-> s, n |-> n]
P(k) == Tok(k, "", 0)
TStr(s) == Tok("str", s, 0)
TNum(n) == Tok("num", "", n)
TFlt(n) == Tok("flt", "", n)

(***************************************************************************)
(* JSON values.  Every value is a record of the same shape; `a` holds the  *)
(* elements of an array (key "") or the members of an object, in the       *)
(* order of the text, duplicates kept.                                     *)
(***************************************************************************)
JV(t, b, n, s, a) == [t |-> t, b |-> b, n |-> n, s |-> s, a |-> a]
JNull == JV("null", FALSE, 0, "", <<>>)
JBool(b) == JV("bool", b, 0, "", <<>>)
JNum(n) == JV("num", FALSE, n, "", <<>>)
JFlt(n) == JV("flt", FALSE, n, "", <<>>)
JStr(s) == JV("str", FALSE, 0, s, <<>>)
JArr(vs) == JV("arr", FALSE, 0, "", [i \in DOMAIN vs |-> [key |-> "", val |-> vs[i]]])
JObj(ms) == JV("obj", FALSE, 0, "", ms)
Member(k, v) == [key |-> k, val |-> v]

Ok(x) == [ok |-> TRUE, v |-> x]
Err == [ok |-> FALSE]

(***************************************************************************)
(* serde_json's writer: a JSON value as text.                              *)
(***************************************************************************)
RECURSIVE Emit(_)
RECURSIVE EmitMembers(_, _, _)
EmitMembers(ms, i, isObj) ==
    IF i > Len(ms) THEN <<>>
    ELSE (IF i > 1 THEN <<P(",")>> ELSE <<>>)
         \o (IF isObj THEN <<TStr(ms[i].key), P(":")>> ELSE <<>>)
         \o Emit(ms[i].val)
         \o EmitMembers(ms, i + 1, isObj)

Emit(v) ==
    CASE v.t = "null" -> <<P("null")>>
      [] v.t = "bool" -> <<P(IF v.b THEN "true" ELSE "false")>>
      [] v.t = "num" -> <<TNum(v.n)>>
      [] v.t = "flt" -> <<TFlt(v.n)>>
      [] v.t = "str" -> <<TStr(v.s)>>
      [] v.t = "arr" -> <<P("[")>> \o EmitMembers(v.a, 1, FALSE) \o <<P("]")>>
      [] v.t = "obj" -> <<P("{")>> \o EmitMembers(v.a, 1, TRUE) \o <<P("}")>>

(***************************************************************************)
(* serde_json's reader: the value that starts at token i of the text, and  *)
(* the position after it.  A result is [ok, v, next]; ok = FALSE is a      *)
(* syntax error or an unexpected end of input.                             *)
(***************************************************************************)
PErr == [ok |-> FALSE, v |-> JNull, next |-> 0]
POk(v, next) == [ok |-> TRUE, v |-> v, next |-> next]
At(toks, i) == IF i <= Len(toks) THEN toks[i].k ELSE "eof"

RECURSIVE ParseValue(_, _)
RECURSIVE ParseElems(_, _, _)
RECURSIVE ParseMembers(_, _, _)

\* after "[" and the elements in acc: the next element, then "," or "]"
ParseElems(toks, i, acc) ==
    LET r == ParseValue(toks, i) IN
    IF ~r.ok THEN PErr
    ELSE LET acc2 == Append(acc, Member("", r.v)) IN
         CASE At(toks, r.next) = "," -> ParseElems(toks, r.next + 1, acc2)
           [] At(toks, r.next) = "]" -> POk(JV("arr", FALSE, 0, "", acc2), r.next + 1)
           [] OTHER -> PErr

\* after "{" and the members in acc: key ":" value, then "," or "}"
ParseMembers(toks, i, acc) ==
    IF At(toks, i) # "str" \/ At(toks, i + 1) # ":" THEN PErr
    ELSE LET r == ParseValue(toks, i + 2) IN
         IF ~r.ok THEN PErr
         ELSE LET acc2 == Append(acc, Member(toks[i].s, r.v)) IN
              CASE At(toks, r.next) = "," -> ParseMembers(toks, r.next + 1, acc2)
                [] At(toks, r.next) = "}" -> POk(JObj(acc2), r.next + 1)
                [] OTHER -> PErr

ParseValue(toks, i) ==
    LET k == At(toks, i) IN
    CASE k = "null" -> POk(JNull, i + 1)
      [] k = "true" -> POk(JBool(TRUE), i + 1)
      [] k = "false" -> POk(JBool(FALSE), i + 1)
      [] k = "num" -> POk(JNum(toks[i].n), i + 1)
      [] k = "flt" -> POk(JFlt(toks[i].n), i + 1)
      [] k = "str" -> POk(JStr(toks[i].s), i + 1)
      [] k = "[" -> IF At(toks, i + 1) = "]" THEN POk(JArr(<<>>), i + 2)
                    ELSE ParseElems(toks, i + 1, <<>>)
      [] k = "{" -> IF At(toks, i + 1) = "}" THEN POk(JObj(<<>>), i + 2)
                    ELSE ParseMembers(toks, i + 1, <<>>)
      [] OTHER -> PErr

\* a whole document: one value and nothing after it
ParseJson(toks) ==
    LET r == ParseValue(toks, 1) IN
    IF r.ok /\ r.next = Len(toks) + 1 THEN Ok(r.v) ELSE Err


(***************************************************************************)
(* The data model.  A struct is the sequence of its fields, in the order   *)
(* of the declaration, each with the kind of its type:                     *)
(*   str String, u32, usize, bool, optstr Option<String>, optbool          *)
(*   Option<bool>, vecstr Vec<String>, vecimage Vec<Image>, optvecimage    *)
(*   Option<Vec<Image>>, image, album, apierror, rd_T ResponseData<T>,     *)
(*   response_T Response<T>.                                               *)
(***************************************************************************)
F(name, kind) == [name |-> name, kind |-> kind]

ApiErrorFields ==
    << F("error", "str"), F("request", "str"), F("method", "str") >>

ImageFields ==
    << F("account_id", "optstr"), F("account_url", "optstr"), F("ad_type", "u32"),
       F("ad_url", "str"), F("animated", "bool"), F("bandwidth", "u32"),
       F("datetime", "u32"), F("description", "optstr"), F("favorite", "bool"),
       F("height", "u32"), F("id", "str"), F("in_gallery", "bool"),
       F("in_most_viral", "bool"), F("is_ad", "bool"), F("link", "str"),
       F("nsfw", "optbool"), F("section", "optstr"), F("size", "u32"),
       F("tags", "vecstr"), F("title", "optstr"), F("views", "u32"),
       F("vote", "optstr"), F("width", "u32") >>

AlbumFields ==
    << F("id", "str"), F("title", "str"), F("description", "str"),
       F("datetime", "u32"), F("cover", "str"), F("cover_width", "u32"),
       F("cover_height", "u32"), F("account_url", "optstr"), F("privacy", "str"),
       F("layout", "str"), F("views", "u32"), F("link", "str"),
       F("favorite", "bool"), F("nsfw", "optbool"), F("section", "optstr"),
       F("order", "u32"), F("deletehash", "optstr"), F("images_count", "u32"),
       F("images", "optvecimage"), F("in_gallery", "bool") >>

\* the payload types T of the three routes
PayloadKinds == {"image", "album", "vecimage"}
RD(t) == "rd_" \o t
RESP(t) == "response_" \o t

ResponseFields(t) ==
    << F("status", "usize"), F("success", "bool"), F("data", RD(t)) >>

OptKinds == {"optstr", "optbool", "optvecimage"}
VecKinds == {"vecstr", "vecimage"}
RdKinds == {RD(t) : t \in PayloadKinds}

Fields(kind) ==
    CASE kind = "image" -> ImageFields
      [] kind = "album" -> AlbumFields
      [] kind = "apierror" -> ApiErrorFields
      [] OTHER -> ResponseFields(CHOOSE t \in PayloadKinds : RESP(t) = kind)

Inner(kind) ==
    CASE kind = "optstr" -> "str"
      [] kind = "optbool" -> "bool"
      [] kind = "optvecimage" -> "vecimage"
      [] kind = "vecstr" -> "str"
      [] kind = "vecimage" -> "image"
      [] OTHER -> CHOOSE t \in PayloadKinds : RD(t) = kind

None == [some |-> FALSE]
Some(x) == [some |-> TRUE, v |-> x]
Success(x) == [variant |-> "Success", v |-> x]
Error(e) == [variant |-> "Error", v |-> e]

FieldNames(fs) == {fs[i].name : i \in DOMAIN fs}
FieldIndex(fs, name) == CHOOSE i \in DOMAIN fs : fs[i].name = name

(***************************************************************************)
(* Deserialize, as derived: De(kind, v) is Ok(typed value) or Err.  The    *)
(* integers of the model are below 2^31, so an integer literal is out of   *)
(* the range of u32 or usize only when it is negative.                     *)
(***************************************************************************)
RECURSIVE De(_, _)
RECURSIVE DeStruct(_, _)

\* #[serde(untagged)] enum ResponseData<T> { Success(T), Error(ApiError) }
\* with the variants tried in the other order
DeResponseDataErrorFirst(t, v) ==
    LET e == De("apierror", v)
        s == De(t, v)
    IN  IF e.ok THEN Ok(Error(e.v))
        ELSE IF s.ok THEN Ok(Success(s.v))
        ELSE Err

\* #[serde(untagged)] enum ResponseData<T> { Success(T), Error(ApiError) }:
\* the buffered value is tried against each variant in declaration order
DeResponseData(t, v) ==
    LET s == De(t, v)
        e == De("apierror", v)
    IN  IF s.ok THEN Ok(Success(s.v))
        ELSE IF e.ok THEN Ok(Error(e.v))
        ELSE Err

\* Option<T> that takes null for an ill-typed value instead of for None
DeOptionStrict(kind, v) ==
    IF v.t = "null" THEN Err
    ELSE LET r == De(Inner(kind), v) IN
         IF r.ok THEN Ok(Some(r.v)) ELSE Err

\* Option<T>: null is None, anything else is Some(T)
DeOption(kind, v) ==
    IF v.t = "null" THEN Ok(None)
    ELSE LET r == De(Inner(kind), v) IN
         IF r.ok THEN Ok(Some(r.v)) ELSE Err

\* a struct whose absent or ill-typed fields are filled with defaults
DeStructLenient(kind, v) ==
    LET fs == Fields(kind)
        dflt(k) == CASE k \in {"str"} -> ""
                     [] k \in {"u32", "usize"} -> 0
                     [] k = "bool" -> FALSE
                     [] k \in OptKinds -> None
                     [] k \in VecKinds -> <<>>
                     [] OTHER -> Error([error |-> "", request |-> "", method |-> ""])
        r(i) == LET occ == {j \in DOMAIN v.a : v.a[j].key = fs[i].name} IN
                IF v.t # "obj" \/ occ = {} THEN Err
                ELSE De(fs[i].kind, v.a[CHOOSE j \in occ : TRUE].val)
    IN  Ok([nm \in FieldNames(fs) |->
               LET x == r(FieldIndex(fs, nm)) IN
               IF x.ok THEN x.v ELSE dflt(fs[FieldIndex(fs, nm)].kind)])

\* #[derive(Deserialize)] on a struct: visit_map for an object (unknown keys
\* ignored, a repeated key an error, an absent field an error unless it is
\* an Option), visit_seq for an array (every field, in order, and no more)
DeStruct(kind, v) ==
    LET fs == Fields(kind)
        fromMap(i) ==
            LET occ == {j \in DOMAIN v.a : v.a[j].key = fs[i].name} IN
            IF occ = {} THEN (IF fs[i].kind \in OptKinds THEN Ok(None) ELSE Err)
            ELSE IF Cardinality(occ) > 1 THEN Err
            ELSE De(fs[i].kind, v.a[CHOOSE j \in occ : TRUE].val)
        fromSeq(i) == De(fs[i].kind, v.a[i].val)
        build(r(_)) ==
            IF \A i \in DOMAIN fs : r(i).ok
            THEN Ok([nm \in FieldNames(fs) |-> r(FieldIndex(fs, nm)).v])
            ELSE Err
    IN  CASE v.t = "obj" -> build(fromMap)
          [] v.t = "arr" -> IF Len(v.a) = Len(fs) THEN build(fromSeq) ELSE Err
          [] OTHER -> Err

De(kind, v) ==
    CASE kind = "str" -> IF v.t = "str" THEN Ok(v.s) ELSE Err
      [] kind \in {"u32", "usize"} -> IF v.t = "num" /\ v.n >= 0 THEN Ok(v.n) ELSE Err
      [] kind = "bool" -> IF v.t = "bool" THEN Ok(v.b) ELSE Err
      [] kind \in OptKinds -> DeOption(kind, v)
      [] kind \in VecKinds ->
            IF v.t # "arr" THEN Err
            ELSE LET rs == [i \in DOMAIN v.a |-> De(Inner(kind), v.a[i].val)] IN
                 IF \A i \in DOMAIN rs : rs[i].ok
                 THEN Ok([i \in DOMAIN rs |-> rs[i].v])
                 ELSE Err
      [] kind \in RdKinds -> DeResponseData(Inner(kind), v)
      [] OTHER -> DeStruct(kind, v)

(***************************************************************************)
(* Serialize, as derived: a struct is an object of all its fields in       *)
(* declaration order, None is null, the untagged enum is its content.      *)
(***************************************************************************)
RECURSIVE Ser(_, _)
Ser(kind, x) ==
    CASE kind = "str" -> JStr(x)
      [] kind \in {"u32", "usize"} -> JNum(x)
      [] kind = "bool" -> JBool(x)
      [] kind \in OptKinds -> IF x.some THEN Ser(Inner(kind), x.v) ELSE JNull
      [] kind \in VecKinds -> JArr([i \in DOMAIN x |-> Ser(Inner(kind), x[i])])
      [] kind \in RdKinds ->
            IF x.variant = "Success" THEN Ser(Inner(kind), x.v)
            ELSE Ser("apierror", x.v)
      [] OTHER ->
            LET fs == Fields(kind) IN
            JObj([i \in DOMAIN fs |-> Member(fs[i].name, Ser(fs[i].kind, x[fs[i].name]))])

\* serde_json::to_vec and serde_json::from_slice
ToVec(kind, x) == Emit(Ser(kind, x))
FromSlice(kind, bytes) ==
    LET j == ParseJson(bytes) IN
    IF j.ok THEN De(kind, j.v) ELSE Err

(***************************************************************************)
(* Values the remote API answers with.                                     *)
(***************************************************************************)
Image1 ==
    [account_id |-> None, account_url |-> None, ad_type |-> 0, ad_url |-> "",
     animated |-> FALSE, bandwidth |-> 4096, datetime |-> 1316635799,
     description |-> None, favorite |-> FALSE, height |-> 2592, id |-> "PE2NI",
     in_gallery |-> TRUE, in_most_viral |-> FALSE, is_ad |-> FALSE,
     link |-> "https://i.imgur.com/PE2NI.jpg", nsfw |-> Some(FALSE),
     section |-> Some("pics"), size |-> 544702, tags |-> <<"cat", "hat">>,
     title |-> Some("Cat"), views |-> 17, vote |-> None, width |-> 1944]

Image2 ==
    [Image1 EXCEPT !.id = "aB3dE", !.link = "https://i.imgur.com/aB3dE.png",
                   !.account_id = Some("77"), !.nsfw = None, !.tags = <<>>,
                   !.animated = TRUE, !.views = 0]

Album1 ==
    [id |-> "cXz3n", title |-> "Album", description |-> "", datetime |-> 1357856292,
     cover |-> "PE2NI", cover_width |-> 1944, cover_height |-> 2592,
     account_url |-> None, privacy |-> "public", layout |-> "blog", views |-> 13,
     link |-> "https://imgur.com/a/cXz3n", favorite |-> FALSE, nsfw |-> None,
     section |-> None, order |-> 0, deletehash |-> None, images_count |-> 2,
     images |-> None, in_gallery |-> FALSE]

Album2 == [Album1 EXCEPT !.images = Some(<<Image1, Image2>>), !.nsfw = Some(TRUE)]

ApiError1 ==
    [error |-> "Album not found", request |-> "/3/album/cXz/images", method |-> "GET"]

Response(status, success, data) == [status |-> status, success |-> success, data |-> data]

\* the wire envelope around an arbitrary data value
Envelope(status, success, data) ==
    JObj(<< Member("status", status), Member("success", success), Member("data", data) >>)

\* an object with every field of Image and every field of ApiError
ImageAndError == JObj(Ser("image", Image1).a \o Ser("apierror", ApiError1).a)

(***************************************************************************)
(* The bodies a server may answer with.  An "encoded" entry is the         *)
(* serialization of the typed envelope orig, of payload kind t; an         *)
(* "apierror" entry is an envelope around a serialized ApiError.           *)
(***************************************************************************)
Encoded(t, orig) == [label |-> "encoded", t |-> t, orig |-> orig, body |-> ToVec(RESP(t), orig)]
Raw(label, v) == [label |-> label, t |-> "", body |-> Emit(v)]
Text(label, toks) == [label |-> label, t |-> "", body |-> toks]

Bodies ==
    << Encoded("image", Response(200, TRUE, Success(Image1))),
       Encoded("album", Response(200, TRUE, Success(Album1))),
       Encoded("vecimage", Response(200, TRUE, Success(<<Image1, Image2>>))),
       Encoded("image", Response(400, FALSE, Success(Image2))),
       Encoded("album", Response(500, FALSE, Success(Album2))),
       Encoded("vecimage", Response(200, TRUE, Success(<<>>))),
       [label |-> "apierror", t |-> "", e |-> ApiError1,
        body |-> ToVec(RESP("image"), Response(400, FALSE, Error(ApiError1)))],
       [label |-> "apierror", t |-> "", e |-> ApiError1,
        body |-> ToVec(RESP("album"), Response(200, TRUE, Error(ApiError1)))],
       Raw("both", Envelope(JNum(400), JBool(FALSE), ImageAndError)),
       Text("truncated",
            LET b == ToVec(RESP("image"), Response(200, TRUE, Success(Image1)))
            IN  SubSeq(b, 1, Len(b) - 2)),
       Text("trailing",
            ToVec(RESP("image"), Response(400, FALSE, Error(ApiError1))) \o <<P("}")>>),
       Text("empty", <<>>),
       Raw("wrongtype",
           Envelope(JNum(200), JBool(TRUE),
                    JObj([i \in DOMAIN ImageFields |->
                            IF ImageFields[i].name = "width"
                            THEN Member("width", JStr("1944"))
                            ELSE Ser("image", Image1).a[i]]))),
       Raw("neither", Envelope(JNum(200), JBool(TRUE), JNull)),
       Raw("neither", Envelope(JNum(400), JBool(FALSE),
                               JObj(<< Member("error", JStr("x")), Member("error", JStr("y")),
                                       Member("request", JStr("/3/image/x")),
                                       Member("method", JStr("GET")) >>))),
       Raw("neither", Envelope(JNum(400), JBool(FALSE),
                               JObj(<< Member("error", JNum(404)),
                                       Member("request", JStr("/3/image/x")),
                                       Member("method", JStr("GET")) >>))),
       Raw("badenvelope", Envelope(JNum(-1), JBool(FALSE), Ser("apierror", ApiError1))),
       Raw("badenvelope", JObj(<< Member("data", Ser("image", Image1)) >>)),
       Raw("badenvelope", Envelope(JFlt(200), JStr("true"), Ser("image", Image1))),
       Raw("seqerror", Envelope(JNum(400), JBool(FALSE),
                                JArr(<< JStr("gone"), JStr("/3/image/x"), JStr("GET") >>))),
       Raw("seqenvelope", JArr(<< JNum(200), JBool(TRUE), Ser("album", Album1) >>))
    >>

(***************************************************************************)
(* The program state.                                                      *)
(*   client  the ImgurClient: whether it was constructed, its connector    *)
(*           and its client_id                                             *)
(*   cred    the credential handed to new / with_client                    *)
(*   calls   per call: where its future stands (pc), the payload kind t of *)
(*           its route, the response being read (status, the chunks still  *)
(*           pending, ri the body they are cut from), the bytes            *)
(*           accumulated so far (buf), what the future yielded (result),   *)
(*           what into_result made of it (resolved), how often             *)
(*           from_slice ran (parses) and where the transport failed        *)
(*           (fault)                                                       *)
(*   sent    per call: the requests handed to the transport                *)
(***************************************************************************)
VARIABLES client, cred, calls, sent
vars == << client, cred, calls, sent >>

Credentials == {"0123456789abcde", "fedcba987654321"}
HttpStatuses == {200, 404, 500}

\* ids the callers pass.  The URL of an id of UnparseableIds is one hyper's
\* Uri parser rejects; the others are the ids of the tests
GoodIds == {"PE2NI"}
UnparseableIds == {"c Xz"}
TestImageIds == {"PE2NI"}
TestAlbumIds == {"cXz3n"}
TestAlbumImagesIds == {"cXz3n", "cXz"}

NoResult == [kind |-> "none"]
OkResult(v) == [kind |-> "ok", v |-> v]
ErrResult(e) == [kind |-> "err", e |-> e]

\* the links of the error_chain! block
ErrTls == [kind |-> "Tls"]
ErrHyper == [kind |-> "Hyper"]
ErrSerde == [kind |-> "Serde"]
ErrImgur(e) == [kind |-> "Imgur", api |-> e]

IdleCall ==
    [pc |-> "idle", t |-> "", uri |-> "", status |-> 0, ri |-> 0,
     pending |-> <<>>, buf |-> <<>>, parses |-> 0, fault |-> "",
     result |-> NoResult, resolved |-> NoResult]

Init ==
    /\ client = [state |-> "none", client_id |-> ""]
    /\ cred = ""
    /\ calls = [c \in Calls |-> IdleCall]
    /\ sent = [c \in Calls |-> <<>>]

\* a panic unwinds the thread that drives the futures
Panicked == \E c \in Calls : calls[c].pc = "panicked"
Ready == client.state = "ready" /\ ~Panicked

(***************************************************************************)
(* ImgurClient::new and ImgurClient::with_client                           *)
(***************************************************************************)
New(client_id, tlsOk) ==
    /\ client.state = "none"
    /\ cred' = client_id
    /\ client' = IF tlsOk
                 THEN [state |-> "ready", client_id |-> client_id]
                 ELSE [state |-> "failed", client_id |-> ""]
    /\ UNCHANGED << calls, sent >>

WithClient(client_id) ==
    /\ client.state = "none"
    /\ cred' = client_id
    /\ client' = [state |-> "ready", client_id |-> client_id]
    /\ UNCHANGED << calls, sent >>

(***************************************************************************)
(* str::parse::<Uri>(): Err for the URLs hyper rejects.                    *)
(***************************************************************************)
MalformedUris ==
    {API \o "/image/" \o id : id \in UnparseableIds}
    \cup {API \o "/album/" \o id : id \in UnparseableIds}
    \cup {API \o "/album/" \o id \o "/images" : id \in UnparseableIds}

UriParse(s) == IF s \in MalformedUris THEN Err ELSE Ok(s)

\* the request get_with_header builds, with a header of another scheme
BuildRequestBearer(url) ==
    [method |-> "Get", uri |-> url, Authorization |-> "Bearer " \o client.client_id]

\* Request::new(Method::Get, url) and the Authorization header
BuildRequest(url) ==
    [method |-> "Get", uri |-> url, Authorization |-> "Client-ID " \o client.client_id]

\* get_with_header up to self.client.request(request): the request is
\* handed to the transport and the future waits for the response head
GetWithHeader(c, t, url) ==
    /\ calls' = [calls EXCEPT ![c] = [IdleCall EXCEPT !.pc = "request", !.t = t, !.uri = url]]
    /\ sent' = [sent EXCEPT ![c] = Append(@, BuildRequest(url))]

\* format!(..).parse().unwrap() followed by get_with_header
Get(c, t, s) ==
    /\ Ready
    /\ calls[c].pc = "idle"
    /\ LET url == UriParse(s) IN
       IF url.ok
       THEN GetWithHeader(c, t, url.v)
       ELSE /\ calls' = [calls EXCEPT ![c].pc = "panicked"]
            /\ UNCHANGED sent
    /\ UNCHANGED << client, cred >>

image(c, id) == Get(c, "image", API \o "/image/" \o id)
album(c, album_id) == Get(c, "album", API \o "/album/" \o album_id)
album_images(c, album_id) == Get(c, "vecimage", API \o "/album/" \o album_id \o "/images")

(***************************************************************************)
(* The future chain of get_with_header.                                    *)
(***************************************************************************)
\* body split into n chunks
Split(body, n) ==
    [i \in 1 .. n |-> SubSeq(body, ((i - 1) * Len(body)) \div n + 1, (i * Len(body)) \div n)]

\* self.client.request(request) fails and the request is sent again
TransportFailRetry(c) ==
    /\ Ready
    /\ calls[c].pc = "request"
    /\ sent' = [sent EXCEPT ![c] = Append(@, @[Len(@)])]
    /\ UNCHANGED << client, cred, calls >>

\* self.client.request(request) fails: .map_err(Error::from)
TransportFail(c) ==
    /\ Ready
    /\ calls[c].pc = "request"
    /\ calls' = [calls EXCEPT ![c].pc = "done", ![c].result = ErrResult(ErrHyper),
                              ![c].fault = "request"]
    /\ UNCHANGED << client, cred, sent >>

\* the response head arrives; status is the HTTP status line, ri the body
\* the server will stream in n chunks
RecvHead(c, status, ri, n) ==
    /\ Ready
    /\ calls[c].pc = "request"
    /\ calls' = [calls EXCEPT ![c].pc = "body", ![c].status = status, ![c].ri = ri,
                              ![c].pending = Split(Bodies[ri].body, n)]
    /\ UNCHANGED << client, cred, sent >>

\* concat2 with one buffer for all the calls of the client
ConcatShared(cs, c, chunk) ==
    [d \in Calls |-> IF cs[d].pc = "body" /\ d # c
                     THEN [cs[d] EXCEPT !.buf = @ \o chunk]
                     ELSE IF d = c
                          THEN [cs[d] EXCEPT !.buf = @ \o chunk, !.pending = Tail(@)]
                          ELSE cs[d]]

\* concat2: the chunk is appended to the buffer of this call
Concat(cs, c, chunk) ==
    [cs EXCEPT ![c].buf = @ \o chunk, ![c].pending = Tail(@)]

RecvChunk(c) ==
    /\ Ready
    /\ calls[c].pc = "body"
    /\ calls[c].pending # <<>>
    /\ calls' = Concat(calls, c, Head(calls[c].pending))
    /\ UNCHANGED << client, cred, sent >>

\* the body stream fails and what was read so far is parsed
BodyFailParsePartial(c) ==
    /\ Ready
    /\ calls[c].pc = "body"
    /\ LET r == FromSlice(RESP(calls[c].t), calls[c].buf) IN
       calls' = [calls EXCEPT ![c].pc = "done", ![c].fault = "body",
                              ![c].result = IF r.ok THEN OkResult(r.v) ELSE ErrResult(ErrHyper),
                              ![c].parses = @ + 1,
                              ![c].pending = <<>>, ![c].buf = <<>>]
    /\ UNCHANGED << client, cred, sent >>

\* the body stream fails: resp.body().map_err(Error::from)
BodyFail(c) ==
    /\ Ready
    /\ calls[c].pc = "body"
    /\ calls' = [calls EXCEPT ![c].pc = "done", ![c].result = ErrResult(ErrHyper),
                              ![c].fault = "body",
                              ![c].pending = <<>>, ![c].buf = <<>>]
    /\ UNCHANGED << client, cred, sent >>

\* the closure, refusing an envelope whose success flag is false
OnBodyCheckSuccess(call) ==
    LET r == FromSlice(RESP(call.t), call.buf) IN
    IF ~r.ok THEN ErrResult(ErrSerde)
    ELSE IF ~r.v.success THEN ErrResult(ErrHyper)
    ELSE OkResult(r.v)

\* the closure given the response, answering by the status line
OnBodyCheckStatus(call) ==
    IF call.status >= 400 THEN ErrResult(ErrHyper)
    ELSE LET r == FromSlice(RESP(call.t), call.buf) IN
         IF r.ok THEN OkResult(r.v) ELSE ErrResult(ErrSerde)

\* |body| future::result(serde_json::from_slice(&body).map_err(Error::from))
OnBody(call) ==
    LET r == FromSlice(RESP(call.t), call.buf) IN
    IF r.ok THEN OkResult(r.v) ELSE ErrResult(ErrSerde)

\* the stream ended: concat2 yields the whole body and the closure runs
ParseBody(c) ==
    /\ Ready
    /\ calls[c].pc = "body"
    /\ calls[c].pending = <<>>
    /\ calls' = [calls EXCEPT ![c].pc = "done", ![c].result = OnBody(calls[c]),
                              ![c].parses = @ + 1, ![c].buf = <<>>]
    /\ UNCHANGED << client, cred, sent >>

\* ResponseData::into_result
into_result(data) ==
    IF data.variant = "Success" THEN OkResult(data.v) ELSE ErrResult(ErrImgur(data.v))

IntoResult(c) ==
    /\ Ready
    /\ calls[c].pc = "done"
    /\ calls[c].result.kind = "ok"
    /\ calls' = [calls EXCEPT ![c].pc = "resolved",
                              ![c].resolved = into_result(calls[c].result.v.data)]
    /\ UNCHANGED << client, cred, sent >>

(***************************************************************************)
(* A stub server that answers each URL with one fixed response.            *)
(***************************************************************************)
Stub(uri) ==
    CASE uri = API \o "/image/PE2NI" -> [status |-> 200, ri |-> 1]
      [] uri = API \o "/album/cXz3n" -> [status |-> 200, ri |-> 2]
      [] uri = API \o "/album/cXz3n/images" -> [status |-> 200, ri |-> 3]
      [] uri = API \o "/album/cXz/images" -> [status |-> 400, ri |-> 7]
      [] OTHER -> [status |-> 500, ri |-> 12]

(***************************************************************************)
(* Spec: one call against a server that may answer anything.               *)
(* SpecConc: every call of Calls, in flight together, against the stub.    *)
(***************************************************************************)
Construct ==
    \/ \E id \in Credentials, tlsOk \in BOOLEAN : New(id, tlsOk)
    \/ \E id \in Credentials : WithClient(id)

Pipeline(c) ==
    \/ TransportFail(c)
    \/ RecvChunk(c)
    \/ BodyFail(c)
    \/ ParseBody(c)
    \/ IntoResult(c)

Next ==
    \/ Construct
    \/ \E id \in GoodIds \cup UnparseableIds : image(1, id)
    \/ \E id \in GoodIds \cup UnparseableIds : album(1, id)
    \/ \E id \in GoodIds \cup UnparseableIds : album_images(1, id)
    \/ \E status \in HttpStatuses, ri \in DOMAIN Bodies, n \in 1 .. MaxChunks :
          RecvHead(1, status, ri, n)
    \/ Pipeline(1)

NextConc ==
    \/ Construct
    \/ \E c \in Calls, id \in TestImageIds \cup UnparseableIds : image(c, id)
    \/ \E c \in Calls, id \in TestAlbumIds : album(c, id)
    \/ \E c \in Calls, id \in TestAlbumImagesIds : album_images(c, id)
    \/ \E c \in Calls, n \in {1, MaxChunks} :
          RecvHead(c, Stub(calls[c].uri).status, Stub(calls[c].uri).ri, n)
    \/ \E c \in Calls : Pipeline(c)

Spec == Init /\ [][Next]_vars
SpecConc == Init /\ [][NextConc]_vars

(***************************************************************************)
(* What the claims are stated in.                                          *)
(***************************************************************************)
\* the call ran serde_json::from_slice on the body the server sent
Parsed(c) == calls[c].parses > 0
Served(c) == Bodies[calls[c].ri]

\* body is JSON text of the wire envelope: an object with one status (a
\* non-negative integer), one success (a boolean) and one data member
Member1(j, key) == j.a[CHOOSE i \in DOMAIN j.a : j.a[i].key = key].val
WellFormed(body) ==
    LET j == ParseJson(body) IN
    /\ j.ok
    /\ j.v.t = "obj"
    /\ \A key \in {"status", "success", "data"} :
          Cardinality({i \in DOMAIN j.v.a : j.v.a[i].key = key}) = 1
    /\ Member1(j.v, "status").t = "num" /\ Member1(j.v, "status").n >= 0
    /\ Member1(j.v, "success").t = "bool"
DataOf(body) == Member1(ParseJson(body).v, "data")

\* C1: for every well-formed {status, success, data} body whose data
\* matches the payload type T of the route, the call yields an envelope with
\* the Success variant; when the body is the encoding of a typed envelope
\* of T, the decoded envelope is that envelope, and into_result() returns
\* the T that was encoded.
C1_RoundTrip ==
    \A c \in Calls :
        Parsed(c) =>
            /\ (WellFormed(Served(c).body) /\ De(calls[c].t, DataOf(Served(c).body)).ok)
                  => /\ calls[c].result.kind = "ok"
                     /\ calls[c].result.v.data.variant = "Success"
            /\ (Served(c).label = "encoded" /\ Served(c).t = calls[c].t)
                  => /\ calls[c].result.kind = "ok"
                     /\ calls[c].result.v = Served(c).orig
                     /\ calls[c].pc = "resolved"
                           => calls[c].resolved = OkResult(Served(c).orig.data.v)

C1_Witness ==
    \E c \in Calls :
        /\ calls[c].pc = "resolved"
        /\ Served(c).label = "encoded"
        /\ Served(c).t = "album" /\ calls[c].t = "album"
        /\ Served(c).orig.data.v.images.some
        /\ calls[c].resolved.kind = "ok"
        /\ calls[c].resolved.v.images.v[2].nsfw = None

\* C2: for every well-formed body whose data matches the ApiError shape
\* and not T, the call yields an envelope (not an error) whose data is the
\* Error variant, with any status and success; into_result() then returns
\* the Imgur (Api) error carrying the same error, request and method.
C2_ApiError ==
    \A c \in Calls :
        Parsed(c) =>
            /\ (/\ WellFormed(Served(c).body)
                /\ ~De(calls[c].t, DataOf(Served(c).body)).ok
                /\ De("apierror", DataOf(Served(c).body)).ok)
                  => /\ calls[c].result.kind = "ok"
                     /\ calls[c].result.v.data =
                           Error(De("apierror", DataOf(Served(c).body)).v)
                     /\ calls[c].pc = "resolved"
                           => calls[c].resolved = ErrResult(ErrImgur(calls[c].result.v.data.v))
            /\ Served(c).label = "apierror"
                  => /\ calls[c].result.kind = "ok"
                     /\ calls[c].result.v.data = Error(Served(c).e)
                     /\ calls[c].pc = "resolved"
                           => /\ calls[c].resolved.kind = "err"
                              /\ calls[c].resolved.e.kind = "Imgur"
                              /\ calls[c].resolved.e.api.error = Served(c).e.error
                              /\ calls[c].resolved.e.api.request = Served(c).e.request
                              /\ calls[c].resolved.e.api.method = Served(c).e.method

\* an API error in an envelope that says success: true, status: 200
C2_Witness ==
    \E c \in Calls :
        /\ calls[c].pc = "resolved"
        /\ Served(c).label = "apierror"
        /\ calls[c].result.v.success /\ calls[c].result.v.status = 200
        /\ calls[c].resolved = ErrResult(ErrImgur(ApiError1))

\* C3: at each of the three routes, a body that is not valid JSON, or
\* whose data matches neither T nor ApiError, makes the call fail with the
\* Serde (Decode) error; an envelope is yielded only for a body that is
\* JSON, and never with values the body does not hold.
MalformedLabels == {"truncated", "trailing", "empty", "wrongtype", "neither"}
C3_DecodeError ==
    \A c \in Calls :
        Parsed(c) =>
            /\ (\/ ~ParseJson(Served(c).body).ok
                \/ Served(c).label \in MalformedLabels
                \/ Served(c).label = "encoded" /\ Served(c).t # calls[c].t)
                  => calls[c].result = ErrResult(ErrSerde)
            /\ calls[c].result.kind = "ok"
                  => /\ ParseJson(Served(c).body).ok
                     /\ Served(c).label \notin MalformedLabels
                     /\ WellFormed(Served(c).body)
                           => LET j == ParseJson(Served(c).body).v IN
                              /\ calls[c].result.v.status = Member1(j, "status").n
                              /\ calls[c].result.v.success = Member1(j, "success").b
                              /\ calls[c].result.v.data.variant = "Success"
                                    => De(calls[c].t, Member1(j, "data")).ok
                              /\ calls[c].result.v.data.variant = "Error"
                                    => De("apierror", Member1(j, "data")).ok

\* an Image whose width is a string, at the image route
C3_Witness ==
    \E c \in Calls :
        /\ Parsed(c)
        /\ Served(c).label = "wrongtype"
        /\ calls[c].t = "image"
        /\ calls[c].result = ErrResult(ErrSerde)

\* C4: a call whose transport failed, while sending the request or while
\* reading the body, ends with the Hyper (Transport) error and never ran
\* the JSON parser; the parser runs at most once, and only in a call whose
\* transport did not fail and whose body has been delivered to the end.
C4_NoDecodeAfterTransportFailure ==
    \A c \in Calls :
        /\ calls[c].fault # ""
              => /\ calls[c].result = ErrResult(ErrHyper)
                 /\ calls[c].parses = 0
        /\ calls[c].parses \in {0, 1}
        /\ Parsed(c)
              => /\ calls[c].fault = ""
                 /\ calls[c].ri # 0
                 /\ calls[c].pending = <<>>
                 /\ calls[c].result.kind = "err" => calls[c].result.e = ErrSerde

\* the body stream broke after a part of the body was accumulated
C4_Witness ==
    \E c \in Calls :
        /\ calls[c].fault = "body"
        /\ calls[c].ri # 0
        /\ calls[c].result = ErrResult(ErrHyper)

C6_Authorization ==
    /\ client.state = "ready" => client.client_id = cred
    /\ \A c \in Calls : \A i \in DOMAIN sent[c] :
          sent[c][i].Authorization = "Client-ID " \o cred

\* C6, as a property of steps: once the client is constructed, no step
\* changes its client_id
C6_CredentialReadOnly ==
    [][client.state = "ready" => client'.client_id = client.client_id]_vars

\* every call has sent its request
C6_Witness ==
    /\ client.state = "ready"
    /\ \A c \in Calls : Len(sent[c]) = 1 /\ calls[c].pc = "resolved"

\* what a call yields when it runs alone on the response the stub gives
\* its URL: the closure applied to the whole body, per payload kind and body
AloneOn ==
    [t \in PayloadKinds |->
        [ri \in DOMAIN Bodies |-> OnBody([IdleCall EXCEPT !.t = t, !.buf = Bodies[ri].body])]]
Alone(c) == AloneOn[calls[c].t][Stub(calls[c].uri).ri]

RECURSIVE Flatten(_)
Flatten(chunks) == IF chunks = <<>> THEN <<>> ELSE Head(chunks) \o Flatten(Tail(chunks))

\* C7: with several calls in flight on one client, under every
\* interleaving of their steps, the bytes a call has accumulated and has
\* still to receive are those of its own response, and the result of a
\* call that parsed its body is the one it yields when run alone.
C7_Independent ==
    \A c \in Calls :
        /\ calls[c].pc = "body"
              => calls[c].buf \o Flatten(calls[c].pending) = Bodies[Stub(calls[c].uri).ri].body
        /\ Parsed(c) => calls[c].result = Alone(c)

\* two calls of different routes were reading their bodies at once and
\* both have finished
C7_Witness ==
    \E c, d \in Calls :
        /\ calls[c].t = "vecimage" /\ calls[d].t = "album"
        /\ calls[c].pc = "resolved" /\ calls[d].pc = "body"
        /\ calls[d].buf # <<>> /\ calls[d].pending # <<>>

\* C8: every call of image, album or album_images ends by yielding an
\* envelope or an Error value, also for an id whose URL does not parse.
C8_NoAbort ==
    \A c \in Calls : calls[c].pc # "panicked"

\* C9: whenever data matches the shape of T the envelope holds the Success
\* variant, also when it matches ApiError as well and when success is false
\* or status is an error code; the Error variant is held only when data
\* does not match T.
C9_PayloadFirst ==
    \A c \in Calls :
        (Parsed(c) /\ WellFormed(Served(c).body)) =>
            LET data == DataOf(Served(c).body) IN
            /\ De(calls[c].t, data).ok
                  => /\ calls[c].result.kind = "ok"
                     /\ calls[c].result.v.data = Success(De(calls[c].t, data).v)
            /\ (calls[c].result.kind = "ok" /\ calls[c].result.v.data.variant = "Error")
                  => ~De(calls[c].t, data).ok

\* data with every Image field and every ApiError field, success false
C9_Witness ==
    \E c \in Calls :
        /\ calls[c].pc = "resolved"
        /\ Served(c).label = "both"
        /\ calls[c].t = "image"
        /\ ~calls[c].result.v.success
        /\ De("apierror", DataOf(Served(c).body)).ok
        /\ calls[c].resolved = OkResult(Image1)

\* C10: the result of a call is the same for every HTTP status the same
\* body may arrive with: the closure run on the body with any other status
\* yields what the call yielded, and a status of 400 or above does not by
\* itself make a Hyper or Imgur error.
C10_StatusIgnored ==
    \A c \in Calls :
        Parsed(c) =>
            /\ \A status \in HttpStatuses :
                  calls[c].result =
                     OnBody([calls[c] EXCEPT !.status = status, !.buf = Served(c).body])
            /\ calls[c].result.kind = "err" => calls[c].result.e = ErrSerde
            /\ (Served(c).label = "encoded" /\ Served(c).t = calls[c].t)
                  => calls[c].result.kind = "ok"

\* a payload that arrived with HTTP status 500 and was resolved to Ok
C10_Witness ==
    \E c \in Calls :
        /\ calls[c].pc = "resolved"
        /\ calls[c].status = 500
        /\ Served(c).label = "encoded"
        /\ calls[c].resolved.kind = "ok"

====
